---------------------------- MODULE Spec2Model ----------------------------
(***************************************************************************)
(* WhatsApp Massager: the recipient parser (normalizePhone, parseNumbers), *)
(* the page's dispatcher (openLinks, its batch timer chain and the API     *)
(* relay) and the send endpoint (POST /api/send).                          *)
(*                                                                         *)
(* Text is modelled as a sequence of one-character strings, so that the    *)
(* regular-expression steps of the parser are computed character by        *)
(* character.                                                              *)
(***************************************************************************)
EXTENDS Integers, Sequences, FiniteSets, TLC

VARIABLES
    \* parser harness: an input text and the results of the two functions
    input, applied, normOut, parseOut,
    \* send endpoint: the request, the environment, the handler's position
    \* and locals, the outbound calls issued, how each settled, the response
    reqBody, ACCESS_TOKEN, PHONE_NUMBER_ID, routePc, to, results, outCalls,
    settled, resOk, response,
    \* page: the component's state (line 42-50), the batch chains started by
    \* openLinks with what each has opened, the API relay in flight, and how
    \* the last invocation of openLinks ended
    rawNumbers, recipients, message, delayMs, batchSize, sending, useApi,
    chains, api, lastCall

parseVars == <<input, applied, normOut, parseOut>>

routeVars == <<reqBody, ACCESS_TOKEN, PHONE_NUMBER_ID, routePc, to, results,
               outCalls, settled, resOk, response>>

formVars == <<rawNumbers, recipients, message, delayMs, batchSize, useApi>>

pageVars == <<rawNumbers, recipients, message, delayMs, batchSize, sending,
              useApi, chains, api, lastCall>>

vars == <<parseVars, routeVars, pageVars>>

-----------------------------------------------------------------------------
(* Bounds of the model *)

\* longest run of digits on either side of the separator character of a token
MaxRun == 8
\* most pieces concatenated into one input text
MaxPieces == 3
\* longest recipients array of a request to the send endpoint
MaxPayload == 3
\* most client-direct dispatches started in one behaviour
MaxChains == 1
\* most batches run by a chain whose cursor does not advance
MaxFires == 2

-----------------------------------------------------------------------------
(* Characters *)

DigitChars == <<"0", "1", "2", "3", "4", "5", "6", "7", "8", "9">>

\* \d of a JavaScript regular expression without the u flag: ASCII digits
IsDigit(c) == c \in {"0", "1", "2", "3", "4", "5", "6", "7", "8", "9"}

\* the class [^\d+] is what is removed: digits and "+" are kept
IsDigitOrPlus(c) == IsDigit(c) \/ c = "+"

NotPlus(c) == c # "+"

\* the separator class [\n,;\t] of parseNumbers
IsSeparator(c) == c \in {"\n", ",", ";", "\t"}

\* what String.prototype.trim removes (the white space of the model's alphabet)
IsWhiteSpace(c) == c \in {" ", "\n", "\t", "\r"}

\* the value null, distinct from every text
Null == <<"null">>

\* JavaScript truthiness of a string-or-null value
Truthy(p) == p # Null /\ p # <<>>

\* the texts of a sequence joined
RECURSIVE Concat(_)
Concat(ss) == IF ss = <<>> THEN <<>> ELSE Head(ss) \o Concat(Tail(ss))

-----------------------------------------------------------------------------
(* normalizePhone *)

StartsWithPlus(s) == Len(s) > 0 /\ s[1] = "+"

\* line 15: the bounds of the length test
MinDigits == 8
MaxDigits == 15

\* line 15 with both comparisons off by one
LengthRejectedStrict(numeric) ==
    Len(numeric) <= MinDigits \/ Len(numeric) >= MaxDigits

\* line 15: numeric.length < 8 || numeric.length > 15
LengthRejected(numeric) == Len(numeric) < MinDigits \/ Len(numeric) > MaxDigits

\* line 14: cleaned.replace(/\+/g, "")
StripPlus(cleaned) == SelectSeq(cleaned, NotPlus)

normalizePhone(raw) ==
    LET digits == SelectSeq(raw, IsDigitOrPlus)
    IN  IF digits = <<>> THEN Null
        ELSE LET cleaned == IF StartsWithPlus(digits) THEN digits
                            ELSE SelectSeq(digits, IsDigit)
                 numeric == StripPlus(cleaned)
             IN  IF LengthRejected(numeric) THEN Null
                 ELSE numeric    \* both branches of line 16 return numeric

-----------------------------------------------------------------------------
(* parseNumbers *)

\* first position at or after i that is not a separator (Len + 1 when none)
RECURSIVE SkipSeparators(_, _)
SkipSeparators(text, i) ==
    IF i > Len(text) \/ ~IsSeparator(text[i]) THEN i
    ELSE SkipSeparators(text, i + 1)

\* text.split(/[\n,;\t]+/): the pieces between maximal runs of separators,
\* an empty piece before a leading run and after a trailing one
RECURSIVE SplitFrom(_, _, _, _)
SplitFrom(text, i, cur, acc) ==
    IF i > Len(text) THEN Append(acc, cur)
    ELSE IF IsSeparator(text[i])
         THEN SplitFrom(text, SkipSeparators(text, i), <<>>, Append(acc, cur))
         ELSE SplitFrom(text, i + 1, Append(cur, text[i]), acc)

Split(text) == SplitFrom(text, 1, <<>>, <<>>)

RECURSIVE TrimStart(_)
TrimStart(s) ==
    IF s # <<>> /\ IsWhiteSpace(s[1]) THEN TrimStart(Tail(s)) ELSE s

RECURSIVE TrimEnd(_)
TrimEnd(s) ==
    IF s # <<>> /\ IsWhiteSpace(s[Len(s)])
    THEN TrimEnd(SubSeq(s, 1, Len(s) - 1)) ELSE s

Trim(s) == TrimEnd(TrimStart(s))

NonEmpty(s) == s # <<>>

\* lines 20-23: split, trim each piece, drop the empty ones
Candidates(text) ==
    LET pieces == Split(text)
    IN  SelectSeq([i \in 1..Len(pieces) |-> Trim(pieces[i])], NonEmpty)

\* line 28 without the membership test
IsNewIgnoringSeen(p, unique) == Truthy(p)

\* line 28: p && !unique.has(p)
IsNew(p, unique) == Truthy(p) /\ p \notin unique

\* lines 26-32: the loop over the candidates from position i on
RECURSIVE ParseLoop(_, _, _, _)
ParseLoop(candidates, i, unique, out) ==
    IF i > Len(candidates) THEN out
    ELSE LET p == normalizePhone(candidates[i])
         IN  IF IsNew(p, unique)
             THEN ParseLoop(candidates, i + 1, unique \cup {p},
                            Append(out, [phone |-> p]))
             ELSE ParseLoop(candidates, i + 1, unique, out)

parseNumbers(text) == ParseLoop(Candidates(text), 1, {}, <<>>)

\* the parser harness at rest
ParseIdle ==
    /\ input = <<>>
    /\ applied = {}
    /\ normOut = Null
    /\ parseOut = <<>>

-----------------------------------------------------------------------------
(* JavaScript values of the send endpoint: tagged by type *)

Undefined == [t |-> "undefined", v |-> "undefined"]
JNull == [t |-> "null", v |-> "null"]
JStr(x) == [t |-> "string", v |-> x]
JNum(n) == [t |-> "number", v |-> n]
JArr(a) == [t |-> "array", v |-> a]
JObj(r, m) == [t |-> "object", v |-> [recipients |-> r, message |-> m]]

\* ToBoolean
JsTruthy(x) ==
    CASE x.t = "undefined" -> FALSE
      [] x.t = "null" -> FALSE
      [] x.t = "string" -> x.v # ""
      [] x.t = "number" -> x.v # 0
      [] OTHER -> TRUE

\* body?.recipients: undefined for null and for a value without the property
OptRecipients(b) == IF b.t = "object" THEN b.v.recipients ELSE Undefined

\* body?.message
OptMessage(b) == IF b.t = "object" THEN b.v.message ELSE Undefined

\* x || d
OrElse(x, d) == IF JsTruthy(x) THEN x ELSE d

\* Array.isArray
IsArray(x) == x.t = "array"

-----------------------------------------------------------------------------
(* POST /api/send *)

\* lines 10-11: the two locals read from the body
BodyRecipients(b) == OrElse(OptRecipients(b), JArr(<<>>))

BodyMessage(b) == OrElse(OptMessage(b), JStr(""))

\* line 13
InvalidPayload(rs, msg) ==
    ~IsArray(rs) \/ Len(rs.v) = 0 \/ ~JsTruthy(msg)

\* line 17
NotConfigured == ~JsTruthy(ACCESS_TOKEN) \/ ~JsTruthy(PHONE_NUMBER_ID)

\* lines 13-19 with the two tests in the other order
RejectionConfigFirst(rs, msg) ==
    IF NotConfigured THEN 501
    ELSE IF InvalidPayload(rs, msg) THEN 400
    ELSE 0

\* lines 13-19: the status of the early response, 0 when there is none
Rejection(rs, msg) ==
    IF InvalidPayload(rs, msg) THEN 400
    ELSE IF NotConfigured THEN 501
    ELSE 0

ErrorText(status) ==
    IF status = 400 THEN "Invalid payload"
    ELSE "Server not configured for API sending"

NoResponse == [status |-> 0, error |-> "", count |-> 0, results |-> <<>>]

\* line 49 counting every entry
OkCountAll(rs) == Len(rs)

\* line 49: results.filter((r) => r.ok).length
OkCount(rs) == Cardinality({i \in 1..Len(rs) : rs[i].ok})

\* the recipients array of a request that passed line 13
Recipients == BodyRecipients(reqBody).v

\* lines 9-22: the body is read and checked; an early response or the loop
Validate ==
    /\ routePc = "start"
    /\ LET st == Rejection(BodyRecipients(reqBody), BodyMessage(reqBody))
       IN  IF st # 0
           THEN /\ response' = [status |-> st, error |-> ErrorText(st),
                                count |-> 0, results |-> <<>>]
                /\ routePc' = "done"
           ELSE /\ routePc' = "loop"
                /\ UNCHANGED response
    /\ UNCHANGED <<reqBody, ACCESS_TOKEN, PHONE_NUMBER_ID, to, results,
                   outCalls, settled, resOk, parseVars, pageVars>>

\* lines 23-37: the next recipient's call is issued and awaited
IssueCall ==
    /\ routePc = "loop"
    /\ to <= Len(Recipients)
    /\ outCalls' = Append(outCalls,
                          [to |-> Recipients[to], body |-> BodyMessage(reqBody)])
    /\ routePc' = "fetch"
    /\ UNCHANGED <<reqBody, ACCESS_TOKEN, PHONE_NUMBER_ID, to, results,
                   settled, resOk, response, parseVars, pageVars>>

\* line 25 settles: a response (ok or not), or fetch throws (lines 44-46)
FetchSettles ==
    /\ routePc = "fetch"
    /\ \E outcome \in {"ok", "not_ok", "throws"} :
         IF outcome = "throws"
         THEN /\ results' = Append(results,
                    [to |-> Recipients[to], ok |-> FALSE,
                     id |-> "undefined", error |-> "TypeError: fetch failed"])
              /\ settled' = Append(settled, "fetch_throws")
              /\ to' = to + 1
              /\ routePc' = "loop"
              /\ UNCHANGED resOk
         ELSE /\ resOk' = (outcome = "ok")
              /\ routePc' = "json"
              /\ UNCHANGED <<results, settled, to>>
    /\ UNCHANGED <<reqBody, ACCESS_TOKEN, PHONE_NUMBER_ID, outCalls, response,
                   parseVars, pageVars>>

\* lines 38-46: res.json() settles and the call's result is recorded
JsonSettles ==
    /\ routePc = "json"
    /\ \E outcome \in {"parsed", "parsed_without_id", "throws"} :
         /\ results' = Append(results,
              IF outcome = "throws"
              THEN [to |-> Recipients[to], ok |-> FALSE, id |-> "undefined",
                    error |-> "SyntaxError: Unexpected token"]
              ELSE IF ~resOk
              THEN [to |-> Recipients[to], ok |-> FALSE, id |-> "undefined",
                    error |-> "json"]
              ELSE [to |-> Recipients[to], ok |-> TRUE,
                    id |-> IF outcome = "parsed" THEN "wamid" ELSE "undefined",
                    error |-> "undefined"])
         /\ settled' = Append(settled,
              IF outcome = "throws" THEN "json_throws"
              ELSE IF resOk THEN "ok" ELSE "not_ok")
    /\ to' = to + 1
    /\ routePc' = "loop"
    /\ UNCHANGED <<reqBody, ACCESS_TOKEN, PHONE_NUMBER_ID, outCalls, resOk,
                   response, parseVars, pageVars>>

\* lines 49-50: the loop is over
Respond ==
    /\ routePc = "loop"
    /\ to > Len(Recipients)
    /\ response' = [status |-> 200, error |-> "", count |-> OkCount(results),
                    results |-> results]
    /\ routePc' = "done"
    /\ UNCHANGED <<reqBody, ACCESS_TOKEN, PHONE_NUMBER_ID, to, results,
                   outCalls, settled, resOk, parseVars, pageVars>>

\* the values a field of the body may hold
RecipientsFields ==
    {Undefined, JNull, JStr(""), JStr("447911123456"), JNum(5)}
    \cup { JArr(a) : a \in UNION { [1..n -> {"14155552671", "447911123456"}] :
                                    n \in 0..MaxPayload } }

MessageFields == {Undefined, JNull, JStr(""), JStr("Hi there!"), JNum(0), JNum(5)}

\* the parsed body: null when the request is not JSON (line 9)
Bodies ==
    {JNull, JNum(5), JStr("x")}
    \cup { JObj(r, m) : r \in RecipientsFields, m \in MessageFields }

EnvValues == {Undefined, JStr(""), JStr("secret")}

RouteIdle ==
    /\ reqBody = JNull
    /\ ACCESS_TOKEN = Undefined
    /\ PHONE_NUMBER_ID = Undefined
    /\ routePc = "idle"
    /\ to = 1
    /\ results = <<>>
    /\ outCalls = <<>>
    /\ settled = <<>>
    /\ resOk = FALSE
    /\ response = NoResponse

-----------------------------------------------------------------------------
(* The page: links *)

\* encodeURIComponent of one character: the unreserved characters stay, any
\* other is percent-encoded (here those of the model's messages)
EncodeChar(c) ==
    CASE c = " " -> <<"%", "2", "0">>
      [] c = "\n" -> <<"%", "0", "A">>
      [] c = "+" -> <<"%", "2", "B">>
      [] c = "&" -> <<"%", "2", "6">>
      [] c = "?" -> <<"%", "3", "F">>
      [] OTHER -> <<c>>

encodeURIComponent(m) == Concat([i \in 1..Len(m) |-> EncodeChar(m[i])])

\* lines 36-39
makeWhatsAppLink(phone, msg) ==
    <<"h", "t", "t", "p", "s", ":", "/", "/", "w", "a", ".", "m", "e", "/">>
    \o phone \o <<"?", "t", "e", "x", "t", "=">> \o encodeURIComponent(msg)

-----------------------------------------------------------------------------
(* The page: state after construction and the form's handlers *)

\* line 44 and line 45: the initial delay and batch size
DefaultDelayMs == 1200
DefaultBatchSize == 10
\* line 160: the batch size taken when the field is cleared
ClearedBatchSize == 1
\* line 164: the delay taken when the field is cleared
ClearedDelayMs == 1000

\* line 114
sample ==
    <<"+", "1", "4", "1", "5", "5", "5", "5", "2", "6", "7", "1", "\n",
      "+", "5", "5", "1", "1", "9", "9", "9", "9", "9", "9", "9", "9", "9", "\n",
      "4", "4", "7", "9", "1", "1", "1", "2", "3", "4", "5", "6">>

\* lines 42-50: the component's state after construction
InitPage ==
    /\ rawNumbers = <<>>
    /\ recipients = parseNumbers(<<>>)
    /\ message = <<>>
    /\ delayMs = DefaultDelayMs
    /\ batchSize = DefaultBatchSize
    /\ sending = FALSE
    /\ useApi = FALSE
    /\ chains = <<>>
    /\ api = "idle"
    /\ lastCall = "none"

\* a longer pasted list: the sample, two more numbers, a token that is too
\* short and a repeat of the first number
pasted ==
    sample \o
    <<";", "+", "3", "3", "1", "2", "3", "4", "5", "6", "7", "8", "9", ",",
      "1", "2", "3", "4", "5", "\t",
      "+", "4", "9", "1", "5", "1", "1", "2", "3", "4", "5", "6", "7", "8", "\n",
      "1", "4", "1", "5", "5", "5", "5", "2", "6", "7", "1">>

\* what the user may type into the recipients box
TypedNumbers == { <<>>, sample, pasted }

\* what the user may type into the message box
TypedMessages == { <<>>, <<"H", "i", " ", "t", "h", "e", "r", "e", "!">> }

\* what the user may leave in the batch size field
TypedBatchSizes == { <<>>, <<"0">>, <<"1">>, <<"2">> }

\* what the user may leave in the delay field
TypedDelays == { <<"0">> }

\* Number(text) of a string of decimal digits
RECURSIVE ToNumber(_)
ToNumber(text) ==
    IF text = <<>> THEN 0
    ELSE 10 * ToNumber(SubSeq(text, 1, Len(text) - 1))
         + (CHOOSE d \in 0..9 : DigitChars[d + 1] = text[Len(text)])

\* Number(e.target.value || dflt): the empty string is falsy, "0" is not
NumberOr(text, dflt) == IF text = <<>> THEN dflt ELSE ToNumber(text)

\* line 50: useMemo(() => parseNumbers(rawNumbers), [rawNumbers])
Memo == [t \in TypedNumbers \cup {sample} |-> parseNumbers(t)]

\* line 134 (and the memo of line 50)
SetRawNumbers ==
    /\ \E t \in TypedNumbers :
         /\ rawNumbers' = t
         /\ recipients' = Memo[t]
    /\ UNCHANGED <<message, delayMs, batchSize, sending, useApi, chains, api,
                   lastCall, parseVars, routeVars>>

\* line 128
LoadSample ==
    /\ rawNumbers' = sample
    /\ recipients' = Memo[sample]
    /\ UNCHANGED <<message, delayMs, batchSize, sending, useApi, chains, api,
                   lastCall, parseVars, routeVars>>

\* line 155
SetMessage ==
    /\ \E m \in TypedMessages : message' = m
    /\ UNCHANGED <<rawNumbers, recipients, delayMs, batchSize, sending, useApi,
                   chains, api, lastCall, parseVars, routeVars>>

\* line 160
SetBatchSize ==
    /\ \E t \in TypedBatchSizes : batchSize' = NumberOr(t, ClearedBatchSize)
    /\ UNCHANGED <<rawNumbers, recipients, message, delayMs, sending, useApi,
                   chains, api, lastCall, parseVars, routeVars>>

\* line 164
SetDelayMs ==
    /\ \E t \in TypedDelays : delayMs' = NumberOr(t, ClearedDelayMs)
    /\ UNCHANGED <<rawNumbers, recipients, message, batchSize, sending, useApi,
                   chains, api, lastCall, parseVars, routeVars>>

\* line 167
SetUseApi ==
    /\ useApi' = ~useApi
    /\ UNCHANGED <<rawNumbers, recipients, message, delayMs, batchSize, sending,
                   chains, api, lastCall, parseVars, routeVars>>

-----------------------------------------------------------------------------
(* The page: openLinks and its batch chain *)

Min(a, b) == IF a < b THEN a ELSE b
Max(a, b) == IF a > b THEN a ELSE b

\* the position Array.prototype.slice takes for an integer argument
RelativeIndex(k, len) == IF k < 0 THEN Max(len + k, 0) ELSE Min(k, len)

\* s.slice(start, end), positions counted from 0
Slice(s, start, end) ==
    SubSeq(s, RelativeIndex(start, Len(s)) + 1, RelativeIndex(end, Len(s)))

\* line 87 reading the component's current state instead of the closure
BatchOfCurrent(c) == Slice(recipients, c.index, c.index + batchSize)

\* line 87: toOpen.slice(index, index + batchSize)
BatchOf(c) == Slice(c.toOpen, c.index, c.index + c.batchSize)

\* line 92 with a floor of one on the step
NextIndexAtLeastOne(c) == c.index + Max(c.batchSize, 1)

\* line 92: index += batchSize
NextIndex(c) == c.index + c.batchSize

\* a timer that fires without waiting
TimerDueAtOnce(c) == TRUE

\* setTimeout(openNextBatch, delayMs) fires no earlier than delayMs after it
\* was set; waited is a lower bound of the time gone by since
TimerDue(c) == c.waited >= c.delayMs

\* lines 86-96: one run of openNextBatch on the closure c
openNextBatch(c) ==
    LET batch == BatchOf(c)
        opens == [i \in 1..Len(batch) |->
                    [batch |-> c.batches + 1,
                     url |-> makeWhatsAppLink(batch[i].phone, c.message),
                     waited |-> c.waited]]
        idx == NextIndex(c)
    IN  [c EXCEPT !.opened = @ \o opens,
                  !.index = idx,
                  !.batches = @ + 1,
                  !.timer = IF idx < Len(c.toOpen) THEN "pending" ELSE "none",
                  !.waited = 0]

\* lines 84-85: the closure of a client-direct dispatch; started records the
\* component's state when openLinks began
NewChain ==
    [toOpen |-> Slice(recipients, 0, Len(recipients)),
     message |-> message, batchSize |-> batchSize, delayMs |-> delayMs,
     index |-> 0, batches |-> 0, timer |-> "none", waited |-> 0,
     opened |-> <<>>,
     started |-> [recipients |-> recipients, message |-> message,
                  batchSize |-> batchSize, delayMs |-> delayMs]]

\* line 61 testing the message only
RefusesEmptyMessageOnly == message = <<>>

\* line 61: !message || recipients.length === 0
Refuses == message = <<>> \/ Len(recipients) = 0

\* lines 60-101 up to the first await (API mode) or to the end (client-direct
\* mode, which never awaits: setSending(true), the first batch, and the
\* setSending(false) of finally run in one task); cap bounds the chains
openLinks(cap) ==
    IF Refuses
    THEN /\ lastCall' = "refused"
         /\ UNCHANGED <<formVars, sending, chains, api>>
    ELSE IF useApi
    THEN /\ sending' = TRUE
         /\ api' = "fetch"
         /\ lastCall' = "ran"
         /\ UNCHANGED <<formVars, chains>>
    ELSE /\ Len(chains) < cap
         /\ chains' = Append(chains, openNextBatch(NewChain))
         /\ sending' = FALSE
         /\ lastCall' = "ran"
         /\ UNCHANGED <<formVars, api>>

\* line 172: the dispatch button's disabled attribute
ButtonDisabled == sending \/ message = <<>> \/ Len(recipients) = 0

\* line 172: a click on the dispatch button
ClickDispatch ==
    /\ ~ButtonDisabled
    /\ openLinks(MaxChains)
    /\ UNCHANGED <<parseVars, routeVars>>

\* line 172, with one more dispatch allowed
ClickDispatchAgain ==
    /\ ~ButtonDisabled
    /\ openLinks(MaxChains + 1)
    /\ UNCHANGED <<parseVars, routeVars>>

\* openLinks called although the button is disabled by its second or third
\* term (no click does this)
CallRefused ==
    /\ message = <<>> \/ Len(recipients) = 0
    /\ openLinks(MaxChains)
    /\ UNCHANGED <<parseVars, routeVars>>

\* line 94: the timer of chain k fires and openNextBatch runs again
FireTimer ==
    /\ \E k \in 1..Len(chains) :
         /\ chains[k].timer = "pending"
         /\ TimerDue(chains[k])
         /\ NextIndex(chains[k]) > chains[k].index \/ chains[k].batches < MaxFires
         /\ chains' = [chains EXCEPT ![k] = openNextBatch(chains[k])]
    /\ UNCHANGED <<formVars, sending, api, lastCall, parseVars, routeVars>>

\* time goes by until the timer of some chain k is due; every pending timer
\* has waited that much longer
Tick ==
    /\ \E k \in 1..Len(chains) :
         /\ chains[k].timer = "pending"
         /\ ~TimerDue(chains[k])
         /\ LET d == chains[k].delayMs - chains[k].waited
            IN  chains' = [j \in 1..Len(chains) |->
                             IF chains[j].timer # "pending" THEN chains[j]
                             ELSE [chains[j] EXCEPT !.waited =
                                     Min(@ + d, chains[j].delayMs)]]
    /\ UNCHANGED <<formVars, sending, api, lastCall, parseVars, routeVars>>

\* line 66 settles: a response, or fetch rejects and finally clears sending
ApiFetchSettles ==
    /\ api = "fetch"
    /\ \E outcome \in {"response", "rejects"} :
         IF outcome = "rejects"
         THEN /\ api' = "idle"
              /\ sending' = FALSE
         ELSE /\ api' = "json"
              /\ UNCHANGED sending
    /\ UNCHANGED <<formVars, chains, lastCall, parseVars, routeVars>>

\* lines 74-80 and 99: the body is read (or not), the alert shown, and
\* finally clears sending
ApiJsonSettles ==
    /\ api = "json"
    /\ api' = "idle"
    /\ sending' = FALSE
    /\ UNCHANGED <<formVars, chains, lastCall, parseVars, routeVars>>

-----------------------------------------------------------------------------
(* Inputs of the parser harness *)

\* a run of n digits whose values follow their position, starting after k
DigitRun(n, k) == [i \in 1..n |-> DigitChars[((k + i) % 10) + 1]]

\* what may stand between the two digit runs of a token
Joints == {<<>>, <<"+">>, <<"-">>, <<" ">>, <<"a">>, <<".", "+">>}

\* tokens: an optional leading "+", a digits, a joint, b digits
Tokens ==
    { lead \o DigitRun(a, 0) \o j \o DigitRun(b, a) :
        lead \in {<<>>, <<"+">>}, a \in 0..MaxRun, j \in Joints, b \in 0..MaxRun }

\* pieces of text: numbers with and without "+", in several formats, too
\* short, too long, not a number, each with or without a separator after it
Pieces == {
    <<"+", "1", "4", "1", "5", "5", "5", "5", "2", "6", "7", "1", "\n">>,
    <<"1", "4", "1", "5", "5", "5", "5", "2", "6", "7", "1">>,
    <<"4", "4", "7", "9", "1", "1", "1", "2", "3", "4", "5", "6", ",">>,
    <<"+", "5", "5", "1", "1", "9", "9", "9", "9", "9", "9", "9", "9", "9", ",">>,
    <<"4", "4", "7", "9", "1", "1", "1", "2", "3", "4", "5", "6">>,
    <<" ", "1", "2", "3", "4", "5", " ", ";">>,
    <<"1", "2", "3", "4", "5", "6", "7", "8", "9", "0", "1", "2", "3", "4", "5", "6", "\t">>,
    <<";", "\n">>,
    <<" ", "+", "1", " ", "(", "4", "1", "5", ")", " ", "5", "5", "5", "-", "2", "6", "7", "1", " ", "\n">>,
    <<"a", "b", "c", ",">> }

Texts == { Concat(ps) : ps \in UNION { [1..n -> Pieces] : n \in 0..MaxPieces } }

Inputs == Tokens \cup Texts

-----------------------------------------------------------------------------
(* The parser harness: each function applied to a drawn input *)

InitParse ==
    /\ input \in Inputs
    /\ applied = {}
    /\ normOut = Null
    /\ parseOut = <<>>
    /\ RouteIdle
    /\ InitPage

Normalize ==
    /\ "normalizePhone" \notin applied
    /\ applied' = applied \cup {"normalizePhone"}
    /\ normOut' = normalizePhone(input)
    /\ UNCHANGED <<input, parseOut, routeVars, pageVars>>

Parse ==
    /\ "parseNumbers" \notin applied
    /\ applied' = applied \cup {"parseNumbers"}
    /\ parseOut' = parseNumbers(input)
    /\ UNCHANGED <<input, normOut, routeVars, pageVars>>

NextParse == Normalize \/ Parse

SpecParse == InitParse /\ [][NextParse]_vars

-----------------------------------------------------------------------------
(* The send endpoint serving one request *)

InitRoute ==
    /\ reqBody \in Bodies
    /\ ACCESS_TOKEN \in EnvValues
    /\ PHONE_NUMBER_ID \in EnvValues
    /\ routePc = "start"
    /\ to = 1
    /\ results = <<>>
    /\ outCalls = <<>>
    /\ settled = <<>>
    /\ resOk = FALSE
    /\ response = NoResponse
    /\ ParseIdle
    /\ InitPage

NextRoute == Validate \/ IssueCall \/ FetchSettles \/ JsonSettles \/ Respond

SpecRoute == InitRoute /\ [][NextRoute]_vars

-----------------------------------------------------------------------------
(* The page *)

Init == InitPage /\ ParseIdle /\ RouteIdle

NextPage ==
    \/ SetRawNumbers \/ LoadSample \/ SetMessage \/ SetBatchSize
    \/ SetDelayMs \/ SetUseApi
    \/ ClickDispatch \/ FireTimer \/ Tick
    \/ ApiFetchSettles \/ ApiJsonSettles

\* the page as its user drives it
Spec == Init /\ [][NextPage]_vars

NextRepeat ==
    \/ SetRawNumbers \/ LoadSample \/ SetMessage \/ SetBatchSize
    \/ SetDelayMs \/ SetUseApi
    \/ ClickDispatchAgain \/ FireTimer \/ Tick
    \/ ApiFetchSettles \/ ApiJsonSettles

\* the page with one more client-direct dispatch in a behaviour
SpecRepeat == Init /\ [][NextRepeat]_vars

NextCall == NextPage \/ CallRefused

\* the page, and openLinks called also while its precondition fails
SpecCall == Init /\ [][NextCall]_vars

-----------------------------------------------------------------------------
(* Properties of the send endpoint *)

\* a field that is missing from the body (or null)
Missing(x) == x.t \in {"undefined", "null"}

\* recipients is missing, not an array, or an empty array
RecipientsBad(b) ==
    \/ Missing(OptRecipients(b))
    \/ OptRecipients(b).t # "array"
    \/ Len(OptRecipients(b).v) = 0

\* message is missing or empty (the empty string, or the number 0)
MessageEmpty(b) ==
    \/ Missing(OptMessage(b))
    \/ (OptMessage(b).t = "string" /\ OptMessage(b).v = "")
    \/ (OptMessage(b).t = "number" /\ OptMessage(b).v = 0)

\* a credential that is not configured (unset, or set to the empty string)
Absent(x) == x.t = "undefined" \/ (x.t = "string" /\ x.v = "")

CredentialsAbsent == Absent(ACCESS_TOKEN) \/ Absent(PHONE_NUMBER_ID)

\* C5: no outbound call unless the payload is valid and both credentials are
\* configured; a bad payload is answered 400 with an error text, also when
\* the credentials are absent; a valid payload without both credentials is
\* answered 501 with an error text.
C5_RejectsBeforeAnyCall ==
    LET bad == RecipientsBad(reqBody) \/ MessageEmpty(reqBody)
    IN  /\ (bad \/ CredentialsAbsent) => outCalls = <<>>
        /\ (routePc = "done" /\ bad) =>
              (response.status = 400 /\ response.error # "")
        /\ (routePc = "done" /\ ~bad /\ CredentialsAbsent) =>
              (response.status = 501 /\ response.error # "")

\* an empty recipients array was answered 400 although no credential is set
C5_Witness ==
    /\ routePc = "done"
    /\ reqBody = JObj(JArr(<<>>), JStr("Hi there!"))
    /\ ACCESS_TOKEN = Undefined
    /\ response.status = 400
    /\ outCalls = <<>>

\* C6: a valid payload with credentials gets one outbound call per recipient,
\* in request order, each issued only when the one before is recorded; a call
\* that fails is recorded with ok = false and the loop goes on; the response
\* is 200 with one entry per recipient in order and count = the entries with
\* ok = true.
C6_SequentialCallsAndCount ==
    (routePc # "idle" /\ ~RecipientsBad(reqBody) /\ ~MessageEmpty(reqBody)
       /\ ~CredentialsAbsent) =>
        /\ Len(outCalls) =
              Len(results) + (IF routePc \in {"fetch", "json"} THEN 1 ELSE 0)
        /\ Len(outCalls) <= Len(Recipients)
        /\ \A i \in 1..Len(outCalls) : outCalls[i].to = Recipients[i]
        /\ Len(settled) = Len(results)
        /\ \A i \in 1..Len(results) :
              /\ results[i].to = Recipients[i]
              /\ results[i].ok = (settled[i] = "ok")
        /\ routePc = "done" =>
              /\ response.status = 200
              /\ response.results = results
              /\ Len(response.results) = Len(Recipients)
              /\ Len(outCalls) = Len(Recipients)
              /\ response.count =
                   Cardinality({i \in 1..Len(settled) : settled[i] = "ok"})

\* three recipients: the first call threw, the second was refused, the third
\* succeeded, and the response counts one
C6_Witness ==
    /\ routePc = "done"
    /\ response.status = 200
    /\ Len(Recipients) = 3
    /\ settled = <<"fetch_throws", "not_ok", "ok">>
    /\ response.count = 1
    /\ Len(response.results) = 3

-----------------------------------------------------------------------------
(* Properties of the parser *)

\* the digits of a text, in their order
DigitsOf(s) == SelectSeq(s, IsDigit)

Phones(rs) == [i \in 1..Len(rs) |-> rs[i].phone]

NoDuplicates(s) == \A i, j \in 1..Len(s) : i # j => s[i] # s[j]

\* the elements of s at the positions in I, in order
AtPositions(s, I) ==
    LET f[k \in 0..Len(s)] ==
            IF k = 0 THEN <<>>
            ELSE IF k \in I THEN Append(f[k - 1], s[k]) ELSE f[k - 1]
    IN  f[Len(s)]

\* s with every later repeat of an earlier value removed
KeepFirst(s) ==
    AtPositions(s, {i \in 1..Len(s) : \A j \in 1..(i - 1) : s[j] # s[i]})

\* the normalized values of the candidate tokens that normalizePhone accepts
AcceptedTokens(text) ==
    LET cs == Candidates(text)
    IN  SelectSeq([i \in 1..Len(cs) |-> normalizePhone(cs[i])], Truthy)

\* C7: the result of parseNumbers has no phone twice and is the sequence of
\* accepted normalized tokens with every later repeat of an earlier value
\* removed, so first-occurrence order is kept.
C7_ParseUniqueFirstOccurrence ==
    "parseNumbers" \in applied =>
        /\ NoDuplicates(Phones(parseOut))
        /\ Phones(parseOut) = KeepFirst(AcceptedTokens(input))

\* "447911123456,+5511999999999,447911123456" has been parsed to
\* [447911123456, 5511999999999]
C7_Witness ==
    /\ "parseNumbers" \in applied
    /\ input = <<"4", "4", "7", "9", "1", "1", "1", "2", "3", "4", "5", "6", ",",
                 "+", "5", "5", "1", "1", "9", "9", "9", "9", "9", "9", "9", "9", "9", ",",
                 "4", "4", "7", "9", "1", "1", "1", "2", "3", "4", "5", "6">>
    /\ ~NoDuplicates(AcceptedTokens(input))
    /\ Phones(parseOut) =
          << <<"4", "4", "7", "9", "1", "1", "1", "2", "3", "4", "5", "6">>,
             <<"5", "5", "1", "1", "9", "9", "9", "9", "9", "9", "9", "9", "9">> >>

\* C8: normalizePhone accepts a token exactly when it holds 8 to 15 digits,
\* and then returns the token's digits in their order and nothing else; every
\* phone of a parsed list is digits only and 8 to 15 long.
C8_NormalizeByDigitCount ==
    /\ "normalizePhone" \in applied =>
          /\ (normOut # Null) <=>
                (Len(DigitsOf(input)) >= 8 /\ Len(DigitsOf(input)) <= 15)
          /\ normOut # Null => normOut = DigitsOf(input)
    /\ "parseNumbers" \in applied =>
          \A i \in 1..Len(parseOut) :
              /\ \A k \in 1..Len(parseOut[i].phone) : IsDigit(parseOut[i].phone[k])
              /\ Len(parseOut[i].phone) \in 8..15

\* a token of 15 digits with a leading and an embedded "+" has been accepted
C8_Witness ==
    /\ "normalizePhone" \in applied
    /\ StartsWithPlus(input)
    /\ \E k \in 2..Len(input) : input[k] = "+"
    /\ Len(DigitsOf(input)) = 15
    /\ normOut = DigitsOf(input)

-----------------------------------------------------------------------------
(* Properties of the page *)

\* ceil(n / b) for b >= 1
CeilDiv(n, b) == (n + b - 1) \div b

Pending(c) == c.timer = "pending"

\* the urls of what a chain has opened, and the batch each was opened in
Urls(c) == [k \in 1..Len(c.opened) |-> c.opened[k].url]

Batches(c) == [k \in 1..Len(c.opened) |-> c.opened[k].batch]

\* C1: a client-direct dispatch with batchSize >= 1 opens every recipient of
\* its copied list exactly once, in list order, the k-th batch holding the
\* next batchSize recipients (the last one what is left); a batch after the
\* first is opened only when the timer set at the end of the batch before it
\* has waited delayMs, and the chain is over exactly when all are opened.
C1_BatchesInOrder ==
    \A j \in 1..Len(chains) :
        LET c == chains[j]
            n == Len(c.toOpen)
        IN  c.batchSize >= 1 =>
              /\ n >= 1 /\ c.message # <<>>
              /\ Len(c.opened) = Min(c.batches * c.batchSize, n)
              /\ NoDuplicates(Urls(c))
              /\ \A k \in 1..Len(c.opened) :
                    /\ c.opened[k].url =
                         makeWhatsAppLink(c.toOpen[k].phone, c.message)
                    /\ c.opened[k].batch = ((k - 1) \div c.batchSize) + 1
                    /\ c.opened[k].batch > 1 => c.opened[k].waited >= c.delayMs
              /\ Pending(c) <=> Len(c.opened) < n

\* five recipients, batch size 2, the initial delay: groups of 2, 2 and 1
\* have been opened and no timer is left
C1_Witness ==
    \E j \in 1..Len(chains) :
        /\ Len(chains[j].toOpen) = 5
        /\ chains[j].batchSize = 2
        /\ chains[j].delayMs = DefaultDelayMs
        /\ chains[j].timer = "none"
        /\ Batches(chains[j]) = <<1, 1, 2, 2, 3>>

\* C2: openLinks called with an empty message or no recipient does nothing: no
\* chain, no open, no timer, no request, sending untouched.
C2_RefusedCallHasNoEffect ==
    [][ ((message = <<>> \/ Len(recipients) = 0) /\ lastCall' # lastCall)
          => (lastCall' = "refused"
              /\ UNCHANGED <<formVars, sending, chains, api>>) ]_vars

\* openLinks was refused with a message but no recipient, in API mode, and
\* no request is in flight
C2_Witness ==
    /\ lastCall = "refused"
    /\ message # <<>>
    /\ Len(recipients) = 0
    /\ useApi
    /\ api = "idle"
    /\ ~sending
    /\ chains = <<>>

\* C3: never two client-direct chains with a timer pending at once.
C3_OneChainAtATime ==
    Cardinality({j \in 1..Len(chains) : Pending(chains[j])}) <= 1

\* what a chain opens, after any edit of the form, is what the form held when
\* openLinks began
OpensAsStarted(c) ==
    LET st == c.started
    IN  /\ c.toOpen = st.recipients
        /\ c.message = st.message
        /\ c.batchSize = st.batchSize
        /\ c.delayMs = st.delayMs
        /\ Len(c.opened) <= Len(st.recipients)
        /\ \A k \in 1..Len(c.opened) :
              /\ c.opened[k].url =
                   makeWhatsAppLink(st.recipients[k].phone, st.message)
              /\ st.batchSize >= 1 =>
                   c.opened[k].batch = ((k - 1) \div st.batchSize) + 1
              /\ c.opened[k].batch > 1 => c.opened[k].waited >= st.delayMs
        /\ st.batchSize >= 1 =>
              Len(c.opened) = Min(c.batches * st.batchSize, Len(st.recipients))

\* C4: the batches of a running dispatch use the recipients, message, batch
\* size and delay that the form held when the dispatch began, whatever is
\* edited afterwards.
C4_SnapshotIsolation ==
    \A j \in 1..Len(chains) : OpensAsStarted(chains[j])

\* a dispatch has run a later batch and is still running, and every field it
\* read has been edited since it began
C4_Witness ==
    \E j \in 1..Len(chains) :
        /\ Pending(chains[j])
        /\ chains[j].batches >= 2
        /\ recipients # chains[j].started.recipients
        /\ message # chains[j].started.message
        /\ batchSize # chains[j].started.batchSize
        /\ delayMs # chains[j].started.delayMs

\* C9: sending is false whenever a later batch of a client-direct dispatch
\* fires, and in API mode it is true exactly from the start of the dispatch
\* until the response has been read or the request has failed.
C9_SendingFlag ==
    [][ /\ (\E j \in 1..Len(chains) :
               /\ j <= Len(chains')
               /\ chains[j].batches >= 1
               /\ chains'[j].batches > chains[j].batches) => ~sending
        /\ sending' <=> (api' # "idle") ]_vars

\* C10: with batchSize >= 1 a chain over n recipients runs ceil(n / batchSize)
\* batches and is over, no timer pending, exactly when it has run them all;
\* with batchSize = 0 the cursor stays at 0, nothing is opened and a timer is
\* pending after every run.
C10_Termination ==
    \A j \in 1..Len(chains) :
        LET c == chains[j]
            n == Len(c.toOpen)
        IN  /\ c.batches >= 1
            /\ c.batchSize >= 1 =>
                  /\ c.batches <= CeilDiv(n, c.batchSize)
                  /\ c.timer = "none" <=> c.batches = CeilDiv(n, c.batchSize)
            /\ c.batchSize = 0 =>
                  /\ c.index = 0
                  /\ c.opened = <<>>
                  /\ Pending(c)

\* a dispatch with batch size 0 has run twice, its cursor still at 0 and its
\* timer pending again
C10_Witness ==
    \E j \in 1..Len(chains) :
        /\ chains[j].batchSize = 0
        /\ chains[j].batches >= 2
        /\ chains[j].index = 0
        /\ Pending(chains[j])

=============================================================================
